---- MODULE Spec2Model ----
(***************************************************************************)
(* Model of src/sentiment_analyzer.py (class SentimentAnalyzer): the batch *)
(* orchestration analyze_batch / analyze_batch_gemini, the single-item     *)
(* path analyze_single_text, the normaliser validate_result, the local     *)
(* heuristic fallback_analysis and the aggregation get_summary_stats.      *)
(*                                                                         *)
(* Specifications, all over the same variables:                            *)
(*  - Spec: a call of analyze_single_text or of analyze_batch;             *)
(*  - SpecValidate: validate_result on one record;                         *)
(*  - SpecFallback: fallback_analysis on one text;                         *)
(*  - SpecStats: get_summary_stats on a list of Results;                   *)
(*  - SpecParse: the extraction and parsing of a response text.            *)
(*                                                                         *)
(* Conventions.                                                            *)
(*  - A Python str is a sequence of one-character strings, so that lower(),*)
(*    slicing, len() and the `in` substring test are computed.             *)
(*  - A Python float is a record [nan, v] with v in hundredths (0.5 is 50).*)
(*    A Python int is an Int.  A JSON number carries its value in          *)
(*    hundredths (7 is 700, 7.9 is 790).                                   *)
(*  - The text of a capability response is a sequence of tokens: prose     *)
(*    words, the four delimiters, object keys and scalar literals.  The    *)
(*    separators ',' and ':' and white space are not represented.          *)
(*  - analyzed_at (datetime.now()) is not part of the modelled Result, and *)
(*    the print() calls of the handlers are not modelled.                  *)
(*  - Percentages and average_intensity are in tenths, average_confidence  *)
(*    in hundredths: the decimal value round() gives, not its binary float.*)
(*  - history variables (via, outcomes, arrays, calls, sent) record what   *)
(*    the code did; the code does not read them.                           *)
(***************************************************************************)
EXTENDS Integers, Sequences, FiniteSets, TLC

-----------------------------------------------------------------------------
(* Bounds of the model *)

\* longest input list given to analyze_batch
MaxTexts == 6

-----------------------------------------------------------------------------
(* Python strings *)

UpperChars == <<"A", "B", "C", "D", "E", "F", "G", "H", "I", "J", "K", "L", "M",
                "N", "O", "P", "Q", "R", "S", "T", "U", "V", "W", "X", "Y", "Z">>

LowerChars == <<"a", "b", "c", "d", "e", "f", "g", "h", "i", "j", "k", "l", "m",
                "n", "o", "p", "q", "r", "s", "t", "u", "v", "w", "x", "y", "z">>

DigitChars == <<"0", "1", "2", "3", "4", "5", "6", "7", "8", "9">>

\* the lower-case letter of each upper-case letter
LowerOf ==
    [c \in {UpperChars[k] : k \in 1..Len(UpperChars)} |->
        LowerChars[CHOOSE k \in 1..Len(UpperChars) : UpperChars[k] = c]]

\* str.lower() on one character
lower_char(c) == IF c \in DOMAIN LowerOf THEN LowerOf[c] ELSE c

\* str.lower()
lower(s) == [k \in 1..Len(s) |-> lower_char(s[k])]

\* `word in text`: word occurs in text as a contiguous substring
str_in(word, text) ==
    \E p \in 0..(Len(text) - Len(word)) :
        \A k \in 1..Len(word) : text[p + k] = word[k]

IsDigit(c) == \E k \in 1..Len(DigitChars) : DigitChars[k] = c

DigitVal(c) == (CHOOSE k \in 1..Len(DigitChars) : DigitChars[k] = c) - 1

IsDigits(s) == Len(s) > 0 /\ \A k \in 1..Len(s) : IsDigit(s[k])

RECURSIVE DigitsVal(_)
DigitsVal(s) ==
    IF Len(s) = 0 THEN 0
    ELSE 10 * DigitsVal(SubSeq(s, 1, Len(s) - 1)) + DigitVal(s[Len(s)])

\* an optional sign in front of s
Unsigned(s) == IF Len(s) > 0 /\ s[1] = "-" THEN SubSeq(s, 2, Len(s)) ELSE s

Sign(s) == IF Len(s) > 0 /\ s[1] = "-" THEN -1 ELSE 1

\* a decimal literal "d+" (what int(str) accepts)
IsIntLiteral(s) == IsDigits(Unsigned(s))

DotAt(s) == IF \E k \in 1..Len(s) : s[k] = "."
            THEN CHOOSE k \in 1..Len(s) : s[k] = "."
            ELSE 0

\* a decimal literal "d+" or "d+.d" or "d+.dd" (what float(str) accepts here)
IsFloatLiteral(s) ==
    LET u == Unsigned(s)
        d == DotAt(u)
    IN  IF d = 0 THEN IsDigits(u)
        ELSE /\ IsDigits(SubSeq(u, 1, d - 1))
             /\ IsDigits(SubSeq(u, d + 1, Len(u)))
             /\ Len(u) - d <= 2

\* value of a float literal, in hundredths
FloatLiteralVal(s) ==
    LET u == Unsigned(s)
        d == DotAt(u)
        frac == SubSeq(u, d + 1, Len(u))
    IN  IF d = 0 THEN Sign(s) * 100 * DigitsVal(u)
        ELSE Sign(s) * (100 * DigitsVal(SubSeq(u, 1, d - 1))
                        + (IF Len(frac) = 1 THEN 10 * DigitsVal(frac)
                           ELSE DigitsVal(frac)))

-----------------------------------------------------------------------------
(* JSON values, as json.loads builds them *)

JStr(s) == [t |-> "str", s |-> s]
JNum(n) == [t |-> "num", n |-> n]
JBool(b) == [t |-> "bool", b |-> b]
JNull == [t |-> "null"]
JNaN == [t |-> "nan"]
JList(items) == [t |-> "list", items |-> items]
JObj(f) == [t |-> "obj", f |-> f]

\* the dict with no key
EmptyDict == [k \in {} |-> JNull]

\* dict.get(key, default)
dict_get(f, key, default) == IF key \in DOMAIN f THEN f[key] ELSE default

-----------------------------------------------------------------------------
(* Python floats and the builtins float(), int(), min(), max() *)

Fin(v) == [nan |-> FALSE, v |-> v]
NaN == [nan |-> TRUE, v |-> 0]

\* a < b on floats: every comparison with nan is false
float_lt(a, b) == ~a.nan /\ ~b.nan /\ a.v < b.v

\* min(a, b): b when b < a, else a
py_min(a, b) == IF float_lt(b, a) THEN b ELSE a

\* max(a, b): b when b > a, else a
py_max(a, b) == IF float_lt(a, b) THEN b ELSE a

\* float(x): raises TypeError / ValueError on what is not a number
py_float(x) ==
    CASE x.t = "num"  -> [raised |-> FALSE, val |-> Fin(x.n)]
      [] x.t = "bool" -> [raised |-> FALSE, val |-> Fin(IF x.b THEN 100 ELSE 0)]
      [] x.t = "nan"  -> [raised |-> FALSE, val |-> NaN]
      [] x.t = "str"  -> IF IsFloatLiteral(x.s)
                         THEN [raised |-> FALSE, val |-> Fin(FloatLiteralVal(x.s))]
                         ELSE [raised |-> TRUE, val |-> NaN]
      [] OTHER        -> [raised |-> TRUE, val |-> NaN]

\* truncation toward zero of a value in hundredths
Trunc(n) == IF n >= 0 THEN n \div 100 ELSE -((-n) \div 100)

\* int(x): raises on None, lists, dicts, nan and strings that are not integers
py_int(x) ==
    CASE x.t = "num"  -> [raised |-> FALSE, val |-> Trunc(x.n)]
      [] x.t = "bool" -> [raised |-> FALSE, val |-> IF x.b THEN 1 ELSE 0]
      [] x.t = "str"  -> IF IsIntLiteral(x.s)
                         THEN [raised |-> FALSE, val |-> Sign(x.s) * DigitsVal(Unsigned(x.s))]
                         ELSE [raised |-> TRUE, val |-> 0]
      [] OTHER        -> [raised |-> TRUE, val |-> 0]

int_min(a, b) == IF b < a THEN b ELSE a

int_max(a, b) == IF b > a THEN b ELSE a

-----------------------------------------------------------------------------
(* String literals of the program *)

POSITIVE == <<"p", "o", "s", "i", "t", "i", "v", "e">>
NEGATIVE == <<"n", "e", "g", "a", "t", "i", "v", "e">>
NEUTRAL == <<"n", "e", "u", "t", "r", "a", "l">>
ELLIPSIS == <<".", ".", ".">>

positive_words ==
    << <<"g", "o", "o", "d">>,
       <<"g", "r", "e", "a", "t">>,
       <<"e", "x", "c", "e", "l", "l", "e", "n", "t">>,
       <<"a", "m", "a", "z", "i", "n", "g">>,
       <<"l", "o", "v", "e">>,
       <<"b", "e", "s", "t">>,
       <<"w", "o", "n", "d", "e", "r", "f", "u", "l">>,
       <<"f", "a", "n", "t", "a", "s", "t", "i", "c">> >>

negative_words ==
    << <<"b", "a", "d">>,
       <<"t", "e", "r", "r", "i", "b", "l", "e">>,
       <<"a", "w", "f", "u", "l">>,
       <<"h", "a", "t", "e">>,
       <<"w", "o", "r", "s", "t">>,
       <<"h", "o", "r", "r", "i", "b", "l", "e">>,
       <<"d", "i", "s", "a", "p", "p", "o", "i", "n", "t", "i", "n", "g">> >>

\* the default of result.get("emotions", ["neutral"])
DefaultEmotions == JList(<<JStr(NEUTRAL)>>)

\* the default of result.get("key_phrases", [])
DefaultKeyPhrases == JList(<<>>)

\* original_text[:100] + "..." if len(original_text) > 100 else original_text
truncate(text) ==
    IF Len(text) > 100 THEN SubSeq(text, 1, 100) \o ELLIPSIS ELSE text

-----------------------------------------------------------------------------
(* fallback_analysis *)

\* text.count(word): the occurrences of word in text
str_count(word, text) ==
    Cardinality({p \in 0..(Len(text) - Len(word)) :
                    \A k \in 1..Len(word) : text[p + k] = word[k]})

RECURSIVE sum_counts(_, _)
sum_counts(words, text_lower) ==
    IF Len(words) = 0 THEN 0
    ELSE str_count(Head(words), text_lower) + sum_counts(Tail(words), text_lower)

\* sum(text_lower.count(word) for word in words): every occurrence counted
word_count_every_occurrence(words, text_lower) == sum_counts(words, text_lower)

\* sum(1 for word in words if word in text_lower)
word_count(words, text_lower) ==
    Cardinality({k \in 1..Len(words) : str_in(words[k], text_lower)})

fallback_analysis(text) ==
    LET text_lower == lower(text)
        positive_count == word_count(positive_words, text_lower)
        negative_count == word_count(negative_words, text_lower)
    IN  [sentiment  |-> IF positive_count > negative_count THEN POSITIVE
                        ELSE IF negative_count > positive_count THEN NEGATIVE
                        ELSE NEUTRAL,
         confidence |-> IF positive_count # negative_count THEN Fin(60) ELSE Fin(50),
         emotions |-> DefaultEmotions,
         key_phrases |-> DefaultKeyPhrases,
         intensity |-> 5,
         original_text |-> truncate(text)]

-----------------------------------------------------------------------------
(* validate_result *)

\* the sentiment after the check against the three allowed values
clean_sentiment(s) == IF s \in {POSITIVE, NEGATIVE, NEUTRAL} THEN s ELSE NEUTRAL

\* the clamp without its upper bound
clamp_confidence_floor_only(c) == py_max(Fin(0), c)

\* max(0.0, min(1.0, confidence))
clamp_confidence(c) == py_max(Fin(0), py_min(Fin(100), c))

\* max(1, min(10, intensity))
clamp_intensity(n) == int_max(1, int_min(10, n))

\* the value returned when validate_result raised (never read)
NoResult ==
    [sentiment |-> NEUTRAL, confidence |-> Fin(50), emotions |-> DefaultEmotions,
     key_phrases |-> DefaultKeyPhrases, intensity |-> 5, original_text |-> <<>>]

\* validate_result(result, original_text): raised is TRUE when the dict
\* literal raises (result has no .get, sentiment has no .lower, float() or
\* int() rejects the value)
validate_result(result, original_text) ==
    IF result.t # "obj" THEN [raised |-> TRUE, val |-> NoResult]
    ELSE
    LET sentiment == dict_get(result.f, "sentiment", JStr(NEUTRAL))
        confidence == py_float(dict_get(result.f, "confidence", JNum(50)))
        intensity == py_int(dict_get(result.f, "intensity", JNum(500)))
    IN  IF sentiment.t # "str" \/ confidence.raised \/ intensity.raised
        THEN [raised |-> TRUE, val |-> NoResult]
        ELSE [raised |-> FALSE,
              val |-> [sentiment |-> clean_sentiment(lower(sentiment.s)),
                       confidence |-> clamp_confidence(confidence.val),
                       emotions |-> dict_get(result.f, "emotions", DefaultEmotions),
                       key_phrases |-> dict_get(result.f, "key_phrases", DefaultKeyPhrases),
                       intensity |-> clamp_intensity(intensity.val),
                       original_text |-> truncate(original_text)]]

-----------------------------------------------------------------------------
(* Text of a capability response: tokens *)

Prose == [k |-> "prose"]
LBracket == [k |-> "["]
RBracket == [k |-> "]"]
LBrace == [k |-> "{"]
RBrace == [k |-> "}"]
Key(name) == [k |-> "key", name |-> name]
Lit(v) == [k |-> "lit", v |-> v]

\* the keys of a record, in the order the prompt lists them
KeyOrder == <<"id", "sentiment", "confidence", "emotions", "key_phrases", "intensity">>

RECURSIVE Concat(_)
Concat(seqs) == IF Len(seqs) = 0 THEN <<>> ELSE Head(seqs) \o Concat(Tail(seqs))

\* the text of a scalar or of a list of scalars
WriteValue(v) ==
    IF v.t = "list"
    THEN <<LBracket>> \o [k \in 1..Len(v.items) |-> Lit(v.items[k])] \o <<RBracket>>
    ELSE <<Lit(v)>>

\* the text of an object
WriteObject(f) ==
    <<LBrace>>
    \o Concat([k \in 1..Len(KeyOrder) |->
                 IF KeyOrder[k] \in DOMAIN f
                 THEN <<Key(KeyOrder[k])>> \o WriteValue(f[KeyOrder[k]])
                 ELSE <<>>])
    \o <<RBrace>>

\* the text of an array element: an object, or a scalar
WriteElement(v) == IF v.t = "obj" THEN WriteObject(v.f) ELSE WriteValue(v)

\* the text of an array
WriteArray(items) ==
    <<LBracket>> \o Concat([k \in 1..Len(items) |-> WriteElement(items[k])]) \o <<RBracket>>

-----------------------------------------------------------------------------
(* re.search(r'\[.*\]', text, re.DOTALL) and re.search(r'\{.*\}', ...) *)

Positions(toks, kind) == {p \in 1..Len(toks) : toks[p].k = kind}

Min(S) == CHOOSE x \in S : \A y \in S : x <= y

Max(S) == CHOOSE x \in S : \A y \in S : x >= y

\* a lazy .*?: up to the first closing delimiter behind the opening one
re_search_lazy(open, close, toks) ==
    LET opens == Positions(toks, open)
        closes == Positions(toks, close)
    IN  IF opens # {} /\ closes # {} /\ Min(opens) < Max(closes)
        THEN [found |-> TRUE,
              group |-> SubSeq(toks, Min(opens), Min({p \in closes : p > Min(opens)}))]
        ELSE [found |-> FALSE, group |-> <<>>]

\* the leftmost opening delimiter that a closing delimiter follows, up to
\* the last closing delimiter of the text (.* is greedy and crosses lines)
re_search(open, close, toks) ==
    LET opens == Positions(toks, open)
        closes == Positions(toks, close)
    IN  IF opens # {} /\ closes # {} /\ Min(opens) < Max(closes)
        THEN [found |-> TRUE, group |-> SubSeq(toks, Min(opens), Max(closes))]
        ELSE [found |-> FALSE, group |-> <<>>]

-----------------------------------------------------------------------------
(* json.loads *)

ParseFail == [ok |-> FALSE, v |-> JNull, next |-> 0]

RECURSIVE parse_value(_, _), parse_items(_, _, _), parse_members(_, _, _)

\* one JSON value starting at token p
parse_value(toks, p) ==
    IF p > Len(toks) THEN ParseFail
    ELSE CASE toks[p].k = "lit" -> [ok |-> TRUE, v |-> toks[p].v, next |-> p + 1]
           [] toks[p].k = "["   -> parse_items(toks, p + 1, <<>>)
           [] toks[p].k = "{"   -> parse_members(toks, p + 1, EmptyDict)
           [] OTHER             -> ParseFail

\* the elements of an array up to its closing bracket
parse_items(toks, p, acc) ==
    IF p > Len(toks) THEN ParseFail
    ELSE IF toks[p].k = "]" THEN [ok |-> TRUE, v |-> JList(acc), next |-> p + 1]
    ELSE LET r == parse_value(toks, p)
         IN  IF r.ok THEN parse_items(toks, r.next, Append(acc, r.v)) ELSE ParseFail

\* the members of an object up to its closing brace; a repeated key keeps
\* its last value
parse_members(toks, p, f) ==
    IF p > Len(toks) THEN ParseFail
    ELSE IF toks[p].k = "}" THEN [ok |-> TRUE, v |-> JObj(f), next |-> p + 1]
    ELSE IF toks[p].k # "key" THEN ParseFail
    ELSE LET r == parse_value(toks, p + 1)
         IN  IF r.ok THEN parse_members(toks, r.next, (toks[p].name :> r.v) @@ f)
             ELSE ParseFail

\* json.loads(json_str): raises when json_str is not exactly one JSON value
json_loads(toks) ==
    LET r == parse_value(toks, 1)
    IN  IF r.ok /\ r.next = Len(toks) + 1
        THEN [raised |-> FALSE, val |-> r.v]
        ELSE [raised |-> TRUE, val |-> JNull]

-----------------------------------------------------------------------------
(* analyze_single_text and the chunk call of analyze_batch_gemini, as       *)
(* functions of the capability's behaviour rsp: [raise |-> TRUE] when       *)
(* generate_content or response.text raises, else the response text         *)

Raise == [raise |-> TRUE, text |-> <<>>]
Reply(toks) == [raise |-> FALSE, text |-> toks]

\* a handler that takes the transport error only
except_transport_only(kind) == kind = "raise"

\* `except Exception as e`: the handler takes every exception the try block
\* can raise: the transport error of generate_content ("raise"), the
\* JSONDecodeError of json.loads ("parse"), and the AttributeError, TypeError
\* or ValueError of validate_result ("coerce")
except_Exception(kind) == kind \in {"raise", "parse", "coerce"}

\* the try block of analyze_single_text: how it ends, and the validated
\* record when it ends "ok"
single_try(text, rsp) ==
    IF rsp.raise THEN [outcome |-> "raise", val |-> NoResult]
    ELSE LET json_match == re_search("{", "}", rsp.text)
         IN  IF ~json_match.found THEN [outcome |-> "nomatch", val |-> NoResult]
             ELSE LET result == json_loads(json_match.group)
                  IN  IF result.raised THEN [outcome |-> "parse", val |-> NoResult]
                      ELSE LET validated == validate_result(result.val, text)
                           IN  IF validated.raised
                               THEN [outcome |-> "coerce", val |-> NoResult]
                               ELSE [outcome |-> "ok", val |-> validated.val]

\* analyze_single_text handing the lower-cased text to fallback_analysis
single_trace_lowered(text, rsp) ==
    LET t == single_try(text, rsp)
    IN  IF t.outcome = "ok"
        THEN [outcome |-> "ok", escaped |-> FALSE, val |-> t.val]
        ELSE [outcome |-> t.outcome, escaped |-> FALSE, val |-> fallback_analysis(lower(text))]

\* analyze_single_text: the validated record, or fallback_analysis(text) when
\* no object is found (else branch) or an exception is handled; escaped is
\* TRUE when an exception leaves the function
single_trace(text, rsp) ==
    LET t == single_try(text, rsp)
    IN  IF t.outcome = "ok"
        THEN [outcome |-> "ok", escaped |-> FALSE, val |-> t.val]
        ELSE IF t.outcome = "nomatch" \/ except_Exception(t.outcome)
        THEN [outcome |-> t.outcome, escaped |-> FALSE, val |-> fallback_analysis(text)]
        ELSE [outcome |-> t.outcome, escaped |-> TRUE, val |-> NoResult]

analyze_single_text(text, rsp) == single_trace(text, rsp).val

\* the try block of analyze_batch_gemini without the test i < len(texts):
\* every entry of the array is validated, the surplus ones with the last text
chunk_trace_all_entries(texts, rsp) ==
    IF rsp.raise THEN [outcome |-> "raise", val |-> <<>>]
    ELSE LET json_match == re_search("[", "]", rsp.text)
         IN  IF ~json_match.found THEN [outcome |-> "nomatch", val |-> <<>>]
             ELSE LET results == json_loads(json_match.group)
                  IN  IF results.raised THEN [outcome |-> "parse", val |-> <<>>]
                      ELSE LET used == Len(results.val.items)
                               validated == [k \in 1..used |->
                                               validate_result(results.val.items[k],
                                                               texts[int_min(k, Len(texts))])]
                           IN  IF \E k \in 1..used : validated[k].raised
                               THEN [outcome |-> "coerce", val |-> <<>>]
                               ELSE [outcome |-> "ok",
                                     val |-> [k \in 1..used |-> validated[k].val]]

\* the try block of analyze_batch_gemini: "ok" returns validated_results,
\* every other outcome leads to the individual analysis of the chunk's texts
chunk_trace(texts, rsp) ==
    IF rsp.raise THEN [outcome |-> "raise", val |-> <<>>]
    ELSE LET json_match == re_search("[", "]", rsp.text)
         IN  IF ~json_match.found THEN [outcome |-> "nomatch", val |-> <<>>]
             ELSE LET results == json_loads(json_match.group)
                  IN  IF results.raised THEN [outcome |-> "parse", val |-> <<>>]
                      ELSE LET used == int_min(Len(results.val.items), Len(texts))
                               validated == [k \in 1..used |->
                                               validate_result(results.val.items[k], texts[k])]
                           IN  IF \E k \in 1..used : validated[k].raised
                               THEN [outcome |-> "coerce", val |-> <<>>]
                               ELSE [outcome |-> "ok",
                                     val |-> [k \in 1..used |-> validated[k].val]]

-----------------------------------------------------------------------------
(* Inputs: the texts handed to the analyzer *)

TextLove == <<"I", " ", "l", "o", "v", "e", " ", "i", "t">>
TextBadAwful == <<"B", "a", "d", ",", " ", "a", "w", "f", "u", "l">>
TextOk == <<"o", "k">>
TextGoodGoodBad == <<"G", "O", "O", "D", " ", "g", "o", "o", "d", " ", "b", "a", "d">>
\* a text of 101 characters
TextLong == <<"g", "r", "e", "a", "t">> \o [k \in 1..96 |-> "!"]

TextPool == <<TextLove, TextBadAwful, TextOk, TextLong, TextGoodGoodBad>>

\* where in TextPool an input list starts
InputOffsets == {0}

\* the input list of n texts that starts at offset r of the pool
InputList(r, n) == [k \in 1..n |-> TextPool[((k - 1 + r) % Len(TextPool)) + 1]]

-----------------------------------------------------------------------------
(* Behaviours of the capability: what generate_content answers *)

SentimentCycle == <<JStr(POSITIVE), JStr(NEGATIVE), JStr(NEUTRAL)>>

\* a record as the prompt asks for it, for the text tagged id; records of
\* different ids differ in every numeric field
GoodRecord(id) ==
    JObj(("id" :> JNum(100 * id))
         @@ ("sentiment" :> SentimentCycle[(id % 3) + 1])
         @@ ("confidence" :> JNum(95 - 5 * id))
         @@ ("emotions" :> JList(<<JStr(<<"j", "o", "y">>)>>))
         @@ ("key_phrases" :> JList(<<>>))
         @@ ("intensity" :> JNum(100 * (id + 2))))

\* a record whose values are out of range: sentiment "Happy", confidence 1.5,
\* intensity 50, and an empty emotions list
WildRecord(id) ==
    JObj(("id" :> JNum(100 * id))
         @@ ("sentiment" :> JStr(<<"H", "a", "p", "p", "y">>))
         @@ ("confidence" :> JNum(150))
         @@ ("emotions" :> JList(<<>>))
         @@ ("intensity" :> JNum(5000)))

\* a record whose values need a cast: sentiment "NEGATIVE", confidence "0.9",
\* intensity "7", emotions null
CastRecord(id) ==
    JObj(("id" :> JNum(100 * id))
         @@ ("sentiment" :> JStr(<<"N", "E", "G", "A", "T", "I", "V", "E">>))
         @@ ("confidence" :> JStr(<<"0", ".", "9">>))
         @@ ("emotions" :> JNull)
         @@ ("intensity" :> JStr(<<"7">>)))

\* a record with confidence NaN and intensity -3.5, the other fields missing
OddRecord(id) ==
    JObj(("id" :> JNum(100 * id))
         @@ ("confidence" :> JNaN)
         @@ ("intensity" :> JNum(-350)))

\* a record with no field but its id
BareRecord(id) == JObj("id" :> JNum(100 * id))

\* a record that makes validate_result raise: sentiment null
NullSentimentRecord(id) == JObj(("id" :> JNum(100 * id)) @@ ("sentiment" :> JNull))

\* GoodRecord for the ids 0..n-1 in the order given by ids
Records(ids) == [k \in 1..Len(ids) |-> GoodRecord(ids[k])]

InOrder(n) == [k \in 1..n |-> k - 1]
Reversed(n) == [k \in 1..n |-> n - k]
\* every id but one: id n-2 of a chunk of n >= 2 texts, id 0 of a chunk of one
Omitting(n) == IF n = 1 THEN <<>>
               ELSE [k \in 1..(n - 1) |-> IF k <= n - 2 THEN k - 1 ELSE k]

\* seq with its first element replaced by x
WithFirst(seq, x) == [k \in 1..Len(seq) |-> IF k = 1 THEN x ELSE seq[k]]

\* the response texts to the prompt of a chunk of n texts
ChunkTexts(n) ==
    { <<Prose>> \o WriteArray(Records(InOrder(n))) \o <<Prose>>,
      WriteArray(Records(Reversed(n))),
      WriteArray(Records(Omitting(n))),
      WriteArray(Records(InOrder(n + 1))),
      WriteArray(WithFirst(Records(InOrder(n)), WildRecord(0))),
      WriteArray(WithFirst(Records(InOrder(n)), CastRecord(0))),
      WriteArray(WithFirst(Records(InOrder(n)), OddRecord(0))),
      WriteArray(WithFirst(Records(InOrder(n)), BareRecord(0))),
      \* no array at all
      <<Prose, Prose>>,
      \* the array is cut before its closing bracket
      <<Prose, LBracket>> \o WriteObject(GoodRecord(0).f),
      \* an element that is not an object
      WriteArray(WithFirst(Records(InOrder(n)), JNum(700))),
      \* an object and not an array: the brackets found are those of emotions
      <<Prose>> \o WriteObject(GoodRecord(0).f),
      WriteArray(WithFirst(Records(InOrder(n)), NullSentimentRecord(0))) }

ChunkBehaviours(n) == {Raise} \cup {Reply(t) : t \in ChunkTexts(n)}

\* the response texts to the prompt of one text
SingleTexts ==
    { <<Prose>> \o WriteObject(GoodRecord(0).f) \o <<Prose>>,
      WriteObject(WildRecord(0).f),
      <<Prose>>,
      \* an array of two objects: from the first '{' to the last '}'
      WriteArray(Records(InOrder(2))),
      \* the object breaks off after a key
      <<LBrace, Key("sentiment"), RBrace>>,
      WriteObject(NullSentimentRecord(0).f) }

SingleBehaviours == {Raise} \cup {Reply(t) : t \in SingleTexts}

-----------------------------------------------------------------------------
(* State *)

VARIABLES
    op,             \* the entry point called: "single" or "batch" ("validate"
                    \* under SpecValidate)
    texts,          \* the argument: the text of analyze_single_text, the list of analyze_batch
    pc,             \* "start", "loop", "individual", "done" once the entry point
                    \* has returned; "raised" when an
                    \* exception reached the caller
    i,              \* analyze_batch: the loop variable, offset of the current chunk
    j,              \* analyze_batch_gemini: texts of the chunk analysed individually so far
    batch_results,  \* analyze_batch_gemini: the list the individual analysis builds
    results,        \* analyze_batch: results; analyze_single_text: the value returned
    via,            \* history: per Result, "chunk", "single" or "fallback"
    outcomes,       \* history: per chunk, the outcome of the chunk call; the
                    \* outcome of the call of a "single" run
    arrays,         \* history: per chunk, the array whose records were validated
                    \* (<<>> when the chunk call did not return validated_results)
    calls,          \* history: per chunk, the number of capability calls issued
    sent,           \* history: per chunk call, the texts its prompt carried
    summary_stats,  \* the dict get_summary_stats returned (under SpecStats)
    response_text,  \* response.text handed to the parsing steps (under SpecParse)
    json_match,     \* json_match, the value of re.search
    loaded          \* <<>>, or the outcome of json.loads(json_str) in a 1-tuple

vars == <<op, texts, pc, i, j, batch_results, results, via, outcomes, arrays, calls, sent,
          summary_stats, response_text, json_match, loaded>>

parse_vars == <<response_text, json_match, loaded>>

\* the parsing steps are not run on their own
NotParsing ==
    /\ response_text = <<>>
    /\ json_match = [found |-> FALSE, group |-> <<>>]
    /\ loaded = <<>>

\* batch_size = 5
batch_size == 5

\* texts[i:i+batch_size+1], a slice one text too long
batch_one_more == SubSeq(texts, i + 1, int_min(i + batch_size + 1, Len(texts)))

\* texts[i:i+batch_size]
batch == SubSeq(texts, i + 1, int_min(i + batch_size, Len(texts)))

Init ==
    /\ op \in {"single", "batch"}
    /\ \E r \in InputOffsets : \E n \in 1..MaxTexts :
          /\ op = "single" => n = 1
          /\ texts = InputList(r, n)
    /\ pc = IF op = "single" THEN "start" ELSE "loop"
    /\ i = 0
    /\ j = 0
    /\ batch_results = <<>>
    /\ results = <<>>
    /\ via = <<>>
    /\ outcomes = <<>>
    /\ arrays = <<>>
    /\ calls = <<>>
    /\ sent = <<>>
    /\ summary_stats = EmptyDict
    /\ NotParsing

\* the array a chunk response parsed into, <<>> when parsing was not reached
ParsedArray(rsp) ==
    IF rsp.raise THEN <<>>
    ELSE LET matched == re_search("[", "]", rsp.text)
         IN  IF ~matched.found THEN <<>>
             ELSE LET parsed == json_loads(matched.group)
                  IN  IF parsed.raised THEN <<>> ELSE parsed.val.items

\* "single" when analyze_single_text returned the validated record
ViaOfSingle(outcome) == IF outcome = "ok" THEN "single" ELSE "fallback"

\* app.py: results = [analyzer.analyze_single_text(texts_to_analyze[0])]
SingleText ==
    /\ op = "single" /\ pc = "start"
    /\ \E rsp \in SingleBehaviours :
          LET t == single_trace(texts[1], rsp)
          IN  /\ outcomes' = <<t.outcome>>
              /\ IF t.escaped
                 THEN /\ pc' = "raised"
                      /\ UNCHANGED <<results, via>>
                 ELSE /\ pc' = "done"
                      /\ results' = <<t.val>>
                      /\ via' = <<ViaOfSingle(t.outcome)>>
    /\ calls' = <<1>>
    /\ UNCHANGED <<op, texts, i, j, batch_results, arrays, sent, summary_stats, parse_vars>>

\* the value of pc once the chunk at offset i is done: the loop goes on to
\* the next chunk, or ends and analyze_batch returns results
AfterChunk == IF i + batch_size < Len(texts) THEN "loop" ELSE "done"

\* one iteration of the loop of analyze_batch up to the return of the try
\* block of analyze_batch_gemini: the chunk call, and results.extend when it
\* returned validated_results
Chunk ==
    /\ op = "batch" /\ pc = "loop" /\ i < Len(texts)
    /\ \E rsp \in ChunkBehaviours(Len(batch)) :
          LET t == chunk_trace(batch, rsp)
          IN  /\ outcomes' = Append(outcomes, t.outcome)
              /\ arrays' = Append(arrays, IF t.outcome = "ok" THEN ParsedArray(rsp) ELSE <<>>)
              /\ IF t.outcome = "ok"
                 THEN /\ results' = results \o t.val
                      /\ via' = via \o [k \in 1..Len(t.val) |-> "chunk"]
                      /\ i' = i + batch_size
                      /\ pc' = AfterChunk
                 ELSE /\ pc' = IF t.outcome = "nomatch" \/ except_Exception(t.outcome)
                               THEN "individual" ELSE "raised"
                      /\ UNCHANGED <<results, via, i>>
    /\ calls' = Append(calls, 1)
    /\ sent' = Append(sent, batch)
    /\ j' = 0
    /\ batch_results' = <<>>
    /\ UNCHANGED <<op, texts, summary_stats, parse_vars>>

\* the individual analysis calling the capability again for a text whose
\* single-item call failed
IndividualRetry ==
    /\ pc = "individual" /\ j < Len(batch)
    /\ \E rsp \in SingleBehaviours :
          LET t == single_trace(batch[j + 1], rsp)
          IN  IF t.outcome # "ok" /\ calls[Len(calls)] < 1 + 2 * batch_size
              THEN UNCHANGED <<results, via, batch_results, i, j, pc>>
              ELSE /\ via' = Append(via, ViaOfSingle(t.outcome))
                   /\ IF j + 1 = Len(batch)
                      THEN /\ results' = results \o Append(batch_results, t.val)
                           /\ batch_results' = <<>>
                           /\ i' = i + batch_size
                           /\ j' = 0
                           /\ pc' = AfterChunk
                      ELSE /\ batch_results' = Append(batch_results, t.val)
                           /\ j' = j + 1
                           /\ UNCHANGED <<results, i, pc>>
    /\ calls' = [calls EXCEPT ![Len(calls)] = @ + 1]
    /\ UNCHANGED <<op, texts, outcomes, arrays, sent, summary_stats, parse_vars>>

\* the individual analysis putting each new Result in front of the list
IndividualReversed ==
    /\ pc = "individual" /\ j < Len(batch)
    /\ \E rsp \in SingleBehaviours :
          LET t == single_trace(batch[j + 1], rsp)
          IN  IF t.escaped
              THEN /\ pc' = "raised"
                   /\ UNCHANGED <<results, via, batch_results, i, j>>
              ELSE /\ via' = Append(via, ViaOfSingle(t.outcome))
                   /\ IF j + 1 = Len(batch)
                      THEN /\ results' = results \o (<<t.val>> \o batch_results)
                           /\ batch_results' = <<>>
                           /\ i' = i + batch_size
                           /\ j' = 0
                           /\ pc' = AfterChunk
                      ELSE /\ batch_results' = <<t.val>> \o batch_results
                           /\ j' = j + 1
                           /\ UNCHANGED <<results, i, pc>>
    /\ calls' = [calls EXCEPT ![Len(calls)] = @ + 1]
    /\ UNCHANGED <<op, texts, outcomes, arrays, sent, summary_stats, parse_vars>>

\* [self.analyze_single_text(text) for text in texts]: the analysis of the
\* next text of the chunk; after the last one the list is returned and
\* analyze_batch extends results with it
Individual ==
    /\ pc = "individual" /\ j < Len(batch)
    /\ \E rsp \in SingleBehaviours :
          LET t == single_trace(batch[j + 1], rsp)
          IN  IF t.escaped
              THEN /\ pc' = "raised"
                   /\ UNCHANGED <<results, via, batch_results, i, j>>
              ELSE /\ via' = Append(via, ViaOfSingle(t.outcome))
                   /\ IF j + 1 = Len(batch)
                      THEN /\ results' = results \o Append(batch_results, t.val)
                           /\ batch_results' = <<>>
                           /\ i' = i + batch_size
                           /\ j' = 0
                           /\ pc' = AfterChunk
                      ELSE /\ batch_results' = Append(batch_results, t.val)
                           /\ j' = j + 1
                           /\ UNCHANGED <<results, i, pc>>
    /\ calls' = [calls EXCEPT ![Len(calls)] = @ + 1]
    /\ UNCHANGED <<op, texts, outcomes, arrays, sent, summary_stats, parse_vars>>

Next == SingleText \/ Chunk \/ Individual

Spec == Init /\ [][Next]_vars

-----------------------------------------------------------------------------
(* validate_result on its own: op = "validate", the record handed to it is  *)
(* arrays[1][1], the text is texts[1]; outcomes records whether it raised   *)
(* and results holds the value it returned                                  *)

Absent == [t |-> "absent"]

SentimentInputs ==
    {Absent, JStr(<<"P", "o", "s", "i", "t", "i", "v", "e">>),
     JStr(<<"H", "a", "p", "p", "y">>), JNull, JNum(100)}

ConfidenceInputs ==
    {Absent, JNum(90), JNum(150), JNum(-20), JStr(<<"0", ".", "9">>),
     JStr(<<"h", "i", "g", "h">>), JNull, JNaN, JBool(TRUE)}

IntensityInputs ==
    {Absent, JNum(700), JNum(790), JNum(5000), JNum(-350), JStr(<<"7">>),
     JStr(<<"7", ".", "5">>), JNull, JNaN}

EmotionsInputs == {Absent, JList(<<JStr(<<"j", "o", "y">>)>>), JList(<<>>), JNull}

\* the member key: v of a dict, nothing when v is Absent
Member(key, v) == IF v.t = "absent" THEN EmptyDict ELSE key :> v

RecordInputs ==
    {JObj(Member("sentiment", s) @@ Member("confidence", c)
          @@ Member("intensity", n) @@ Member("emotions", e)) :
        s \in SentimentInputs, c \in ConfidenceInputs,
        n \in IntensityInputs, e \in EmotionsInputs}
    \cup {JNum(700), JStr(<<"j", "o", "y">>), JNull, JList(<<>>)}

InitValidate ==
    /\ op = "validate"
    /\ texts \in {<<TextOk>>, <<TextLong>>}
    /\ \E record \in RecordInputs : arrays = <<<<record>>>>
    /\ pc = "start"
    /\ i = 0
    /\ j = 0
    /\ batch_results = <<>>
    /\ results = <<>>
    /\ via = <<>>
    /\ outcomes = <<>>
    /\ calls = <<>>
    /\ sent = <<>>
    /\ summary_stats = EmptyDict
    /\ NotParsing

\* validated = self.validate_result(result, text)
Validate ==
    /\ op = "validate" /\ pc = "start"
    /\ LET validated == validate_result(arrays[1][1], texts[1])
       IN  IF validated.raised
           THEN /\ outcomes' = <<"raised">>
                /\ pc' = "raised"
                /\ UNCHANGED results
           ELSE /\ outcomes' = <<"ok">>
                /\ pc' = "done"
                /\ results' = <<validated.val>>
    /\ UNCHANGED <<op, texts, i, j, batch_results, via, arrays, calls, sent, summary_stats,
                   parse_vars>>

NextValidate == Validate

SpecValidate == InitValidate /\ [][NextValidate]_vars

-----------------------------------------------------------------------------
(* fallback_analysis on its own: op = "fallback", the text is texts[1] and  *)
(* results holds the value returned                                         *)

\* most words in a text given to fallback_analysis
MaxWords == 3

Vocabulary ==
    { <<"g", "o", "o", "d">>, <<"G", "O", "O", "D">>, <<"G", "r", "e", "a", "t">>,
      <<"b", "a", "d">>, <<"A", "w", "f", "u", "l">>, <<"o", "k">> }

\* the words separated by single spaces
RECURSIVE Sentence(_)
Sentence(ws) ==
    IF Len(ws) = 0 THEN <<>>
    ELSE IF Len(ws) = 1 THEN ws[1]
    ELSE ws[1] \o <<" ">> \o Sentence(Tail(ws))

FallbackTexts ==
    {Sentence(ws) : ws \in UNION {[1..n -> Vocabulary] : n \in 0..MaxWords}}

InitFallback ==
    /\ op = "fallback"
    /\ \E text \in FallbackTexts : texts = <<text>>
    /\ pc = "start"
    /\ i = 0
    /\ j = 0
    /\ batch_results = <<>>
    /\ results = <<>>
    /\ via = <<>>
    /\ outcomes = <<>>
    /\ arrays = <<>>
    /\ calls = <<>>
    /\ sent = <<>>
    /\ summary_stats = EmptyDict
    /\ NotParsing

\* return self.fallback_analysis(text)
Fallback ==
    /\ op = "fallback" /\ pc = "start"
    /\ results' = <<fallback_analysis(texts[1])>>
    /\ pc' = "done"
    /\ UNCHANGED <<op, texts, i, j, batch_results, via, outcomes, arrays, calls, sent,
                   summary_stats, parse_vars>>

NextFallback == Fallback

SpecFallback == InitFallback /\ [][NextFallback]_vars

-----------------------------------------------------------------------------
(* get_summary_stats *)

RECURSIVE IsPowerOfTwo(_)
IsPowerOfTwo(n) == n = 1 \/ (n > 1 /\ n % 2 = 0 /\ IsPowerOfTwo(n \div 2))

\* round(x, ndigits) keeping only the integer part
py_round_down(num, den, exact) == {num \div den}

\* round(x, ndigits), x >= 0, as the set of values it can give at the scale
\* of the result (tenths for ndigits = 1), where x at that scale is num / den:
\* the nearest integer; half way between two, the even one when x is exact
\* in binary, and else the one the error of the float x falls towards
py_round(num, den, exact) ==
    LET q == num \div den
        r == num % den
    IN  IF 2 * r < den THEN {q}
        ELSE IF 2 * r > den THEN {q + 1}
        ELSE IF exact THEN {IF q % 2 = 0 THEN q ELSE q + 1}
        ELSE {q, q + 1}

\* sum(1 for r in results if r["sentiment"] == sentiment)
count_sentiment(results_, sentiment) ==
    Cardinality({k \in 1..Len(results_) : results_[k].sentiment = sentiment})

\* sum(r["confidence"] for r in results), in hundredths
RECURSIVE sum_confidence(_)
sum_confidence(results_) ==
    IF Len(results_) = 0 THEN 0
    ELSE Head(results_).confidence.v + sum_confidence(Tail(results_))

\* sum(r["intensity"] for r in results)
RECURSIVE sum_intensity(_)
sum_intensity(results_) ==
    IF Len(results_) = 0 THEN 0
    ELSE Head(results_).intensity + sum_intensity(Tail(results_))

\* all_emotions after the loop of all_emotions.extend(r["emotions"])
all_emotions_of(results_) ==
    Concat([k \in 1..Len(results_) |-> results_[k].emotions.items])

\* emotion_counts[emotion] = emotion_counts.get(emotion, 0) + 1 for every
\* emotion of all_emotions; the dict is the sequence of its items, a dict
\* keeping its keys in the order they were inserted
RECURSIVE count_emotions(_, _)
count_emotions(all_emotions, emotion_counts) ==
    IF Len(all_emotions) = 0 THEN emotion_counts
    ELSE LET emotion == Head(all_emotions)
             at == {k \in 1..Len(emotion_counts) : emotion_counts[k][1] = emotion}
         IN  count_emotions(Tail(all_emotions),
                IF at = {} THEN Append(emotion_counts, <<emotion, 1>>)
                ELSE [emotion_counts EXCEPT ![CHOOSE k \in at : TRUE][2] = @ + 1])

\* item put behind the items whose count is not smaller, sorted_ descending
insert_behind_equal(sorted_, item) ==
    LET n == Cardinality({k \in 1..Len(sorted_) : sorted_[k][2] >= item[2]})
    IN  SubSeq(sorted_, 1, n) \o <<item>> \o SubSeq(sorted_, n + 1, Len(sorted_))

\* item put before the items whose count is not greater
insert_before_equal(sorted_, item) ==
    LET n == Cardinality({k \in 1..Len(sorted_) : sorted_[k][2] > item[2]})
    IN  SubSeq(sorted_, 1, n) \o <<item>> \o SubSeq(sorted_, n + 1, Len(sorted_))

\* a descending sort that turns round the items of equal count
RECURSIVE sorted_ties_reversed(_)
sorted_ties_reversed(items) ==
    IF Len(items) = 0 THEN <<>>
    ELSE insert_before_equal(sorted_ties_reversed(SubSeq(items, 1, Len(items) - 1)),
                             items[Len(items)])

\* sorted(items, key=lambda x: x[1], reverse=True): descending by count, the
\* items of equal count staying in the order they have in items
RECURSIVE sorted_by_count(_)
sorted_by_count(items) ==
    IF Len(items) = 0 THEN <<>>
    ELSE insert_behind_equal(sorted_by_count(SubSeq(items, 1, Len(items) - 1)),
                             items[Len(items)])

\* the dicts get_summary_stats can return for results_: one, but for a mean
\* or percentage half way between two roundings
get_summary_stats(results_) ==
    IF Len(results_) = 0 THEN {EmptyDict}
    ELSE LET total == Len(results_)
             positive == count_sentiment(results_, POSITIVE)
             negative == count_sentiment(results_, NEGATIVE)
             neutral == count_sentiment(results_, NEUTRAL)
             emotion_counts == count_emotions(all_emotions_of(results_), <<>>)
             sorted_ == sorted_by_count(emotion_counts)
             top_emotions == SubSeq(sorted_, 1, int_min(5, Len(sorted_)))
             exact == IsPowerOfTwo(total)
         IN  {[total_analyzed |-> total,
               positive_count |-> positive,
               negative_count |-> negative,
               neutral_count |-> neutral,
               positive_percentage |-> pp,
               negative_percentage |-> np,
               neutral_percentage |-> up,
               average_confidence |-> ac,
               average_intensity |-> ai,
               top_emotions |-> top_emotions] :
                 pp \in py_round(positive * 1000, total, exact),
                 np \in py_round(negative * 1000, total, exact),
                 up \in py_round(neutral * 1000, total, exact),
                 ac \in py_round(sum_confidence(results_), total, FALSE),
                 ai \in py_round(sum_intensity(results_) * 10, total, exact)}

-----------------------------------------------------------------------------
(* get_summary_stats on its own: op = "stats", the list handed to it is     *)
(* results and summary_stats holds the dict returned                        *)

\* longest Result list given to get_summary_stats
MaxResults == 6

Emotion(name) == JStr(name)

StatsResult(sentiment, confidence, intensity, emotions) ==
    [sentiment |-> sentiment, confidence |-> Fin(confidence),
     emotions |-> JList(emotions), key_phrases |-> DefaultKeyPhrases,
     intensity |-> intensity, original_text |-> TextOk]

JOY == Emotion(<<"j", "o", "y">>)
LOVE == Emotion(<<"l", "o", "v", "e">>)
ANGER == Emotion(<<"a", "n", "g", "e", "r">>)
FEAR == Emotion(<<"f", "e", "a", "r">>)
SURPRISE == Emotion(<<"s", "u", "r", "p", "r", "i", "s", "e">>)
SADNESS == Emotion(<<"s", "a", "d", "n", "e", "s", "s">>)

StatsResults ==
    { StatsResult(POSITIVE, 95, 8, <<JOY, LOVE>>),
      StatsResult(NEGATIVE, 90, 7, <<ANGER, FEAR, JOY>>),
      StatsResult(NEUTRAL, 50, 5, <<Emotion(NEUTRAL)>>),
      StatsResult(NEGATIVE, 60, 4, <<SURPRISE, SADNESS, ANGER>>) }

InitStats ==
    /\ op = "stats"
    /\ \E n \in 0..MaxResults : results \in [1..n -> StatsResults]
    /\ texts = <<>>
    /\ pc = "start"
    /\ i = 0
    /\ j = 0
    /\ batch_results = <<>>
    /\ via = <<>>
    /\ outcomes = <<>>
    /\ arrays = <<>>
    /\ calls = <<>>
    /\ sent = <<>>
    /\ summary_stats = EmptyDict
    /\ NotParsing

\* app.py: summary_stats = analyzer.get_summary_stats(results)
Summarise ==
    /\ op = "stats" /\ pc = "start"
    /\ summary_stats' \in get_summary_stats(results)
    /\ pc' = "done"
    /\ UNCHANGED <<op, texts, i, j, batch_results, results, via, outcomes, arrays, calls, sent,
                   parse_vars>>

NextStats == Summarise

SpecStats == InitStats /\ [][NextStats]_vars

-----------------------------------------------------------------------------
(* The parsing steps on their own: op = "parse_object" for lines 47-51 of   *)
(* analyze_single_text, "parse_array" for lines 109-113 of                  *)
(* analyze_batch_gemini, on the response text response_text                 *)

\* most tokens in a response text given to the parsing steps
MaxTokens == 4

ResponseTokens ==
    {Prose, LBracket, RBracket, LBrace, RBrace, Key("id"), Lit(JNum(0))}

ResponseTexts == UNION {[1..n -> ResponseTokens] : n \in 0..MaxTokens}

InitParse ==
    /\ op \in {"parse_object", "parse_array"}
    /\ response_text \in ResponseTexts
    /\ json_match = [found |-> FALSE, group |-> <<>>]
    /\ loaded = <<>>
    /\ texts = <<>>
    /\ pc = "start"
    /\ i = 0
    /\ j = 0
    /\ batch_results = <<>>
    /\ results = <<>>
    /\ via = <<>>
    /\ outcomes = <<>>
    /\ arrays = <<>>
    /\ calls = <<>>
    /\ sent = <<>>
    /\ summary_stats = EmptyDict

\* json_match = re.search(open .* close, response_text, re.DOTALL), and
\* json.loads(json_match.group()) if json_match
ParseSteps(open, close) ==
    /\ json_match' = re_search(open, close, response_text)
    /\ loaded' = IF json_match'.found THEN <<json_loads(json_match'.group)>> ELSE <<>>
    /\ pc' = "done"
    /\ UNCHANGED <<op, texts, i, j, batch_results, results, via, outcomes, arrays, calls, sent,
                   summary_stats, response_text>>

\* analyze_single_text, lines 47-51
ParseObject == op = "parse_object" /\ pc = "start" /\ ParseSteps("{", "}")

\* analyze_batch_gemini, lines 109-113
ParseArray == op = "parse_array" /\ pc = "start" /\ ParseSteps("[", "]")

NextParse == ParseObject \/ ParseArray

SpecParse == InitParse /\ [][NextParse]_vars

-----------------------------------------------------------------------------
(* Vocabulary of the properties *)

\* the chunks started so far
Chunks == IF op = "batch" THEN 1..Len(outcomes) ELSE {}

\* the texts of chunk c
ChunkTextsOf(c) ==
    SubSeq(texts, batch_size * (c - 1) + 1, int_min(batch_size * c, Len(texts)))

\* chunk c is the one being analysed text by text
InProgress(c) == pc = "individual" /\ c = Len(outcomes)

\* the number of Results chunk c has handed to analyze_batch
ResultCount(c) ==
    IF InProgress(c) \/ pc = "raised" THEN 0
    ELSE IF outcomes[c] = "ok" THEN int_min(Len(arrays[c]), Len(ChunkTextsOf(c)))
    ELSE Len(ChunkTextsOf(c))

\* where the Results of chunk c start in results
RECURSIVE ResultOffset(_)
ResultOffset(c) == IF c = 1 THEN 0 ELSE ResultOffset(c - 1) + ResultCount(c - 1)

\* the number of texts of chunk c that have a Result
Produced(c) == IF InProgress(c) THEN j ELSE ResultCount(c)

\* the Result of the p-th text of chunk c that has one
ResultAt(c, p) == IF InProgress(c) THEN batch_results[p] ELSE results[ResultOffset(c) + p]

\* every Result built so far
AllResults ==
    {results[k] : k \in 1..Len(results)} \cup {batch_results[k] : k \in 1..Len(batch_results)}

\* the array of chunk c holds a record tagged id
HasId(c, id) ==
    \E k \in 1..Len(arrays[c]) :
        /\ arrays[c][k].t = "obj"
        /\ "id" \in DOMAIN arrays[c][k].f
        /\ arrays[c][k].f["id"].t = "num"
        /\ arrays[c][k].f["id"].n = 100 * id

\* the first record of the array of chunk c that is tagged id
RecordWithId(c, id) ==
    arrays[c][Min({k \in 1..Len(arrays[c]) :
                      /\ arrays[c][k].t = "obj"
                      /\ "id" \in DOMAIN arrays[c][k].f
                      /\ arrays[c][k].f["id"].t = "num"
                      /\ arrays[c][k].f["id"].n = 100 * id})]

\* a list of at least one string
IsEmotionList(v) ==
    /\ v.t = "list"
    /\ Len(v.items) > 0
    /\ \A k \in 1..Len(v.items) : v.items[k].t = "str"

\* a list of strings
IsPhraseList(v) == v.t = "list" /\ \A k \in 1..Len(v.items) : v.items[k].t = "str"

\* the three numeric and enumerated fields are in their domains
InRange(r) ==
    /\ r.sentiment \in {POSITIVE, NEGATIVE, NEUTRAL}
    /\ ~r.confidence.nan /\ 0 <= r.confidence.v /\ r.confidence.v <= 100
    /\ r.intensity \in 1..10

Finished == pc = "done" /\ op = "batch"

-----------------------------------------------------------------------------
(* C1 *)

\* C1: when analyze_batch has returned, whatever the capability did, the list
\* returned has as many Results as the input has texts.
C1_LengthPreserved == Finished => Len(results) = Len(texts)

-----------------------------------------------------------------------------
(* C2 *)

\* C2: when the array of a chunk has no record for an id of the chunk, the
\* output still holds a Result at that text's input index, the one
\* fallback_analysis gives for the text, and the texts whose id has a record
\* keep the Result validated from that record.
C2_MissingIdFilled ==
    Finished =>
        \A c \in Chunks : outcomes[c] = "ok" =>
            \A p \in 1..Len(ChunkTextsOf(c)) :
                LET k == batch_size * (c - 1) + p
                IN  /\ k <= Len(results)
                    /\ results[k] = IF HasId(c, p - 1)
                                    THEN validate_result(RecordWithId(c, p - 1), texts[k]).val
                                    ELSE fallback_analysis(texts[k])

-----------------------------------------------------------------------------
(* C3 *)

\* C3: every Result of the output derives from the text at the same index:
\* its original_text is that text truncated, and when it was validated from
\* a record of the chunk's array, that record is the one tagged with the
\* text's position in the chunk, whatever the order of the array.
C3_DerivesFromInput ==
    Finished =>
        \A k \in 1..int_min(Len(results), Len(texts)) :
            LET c == ((k - 1) \div batch_size) + 1
                p == ((k - 1) % batch_size) + 1
            IN  /\ results[k].original_text = truncate(texts[k])
                /\ via[k] = "chunk" =>
                      /\ HasId(c, p - 1)
                      /\ results[k] = validate_result(RecordWithId(c, p - 1), texts[k]).val

-----------------------------------------------------------------------------
(* C4 *)

\* C4: every Result built by any path (validated from a chunk array,
\* validated from a single-item response, or fallback_analysis) has its
\* sentiment among positive, negative, neutral, its confidence within
\* [0.0, 1.0] and its intensity an integer within 1..10.
C4_FieldsInRange == \A r \in AllResults : InRange(r)

\* a finished batch with a Result of each path, the one from the chunk array
\* clamped from confidence 1.5 and intensity 50
C4_Witness ==
    /\ Finished
    /\ \E a, b, k \in 1..Len(results) :
          /\ via[a] = "single" /\ via[b] = "fallback" /\ via[k] = "chunk"
          /\ \E c \in Chunks :
                /\ outcomes[c] = "ok" /\ k = ResultOffset(c) + 1
                /\ arrays[c][1] = WildRecord(0)
                /\ results[k].confidence = Fin(100)
                /\ results[k].intensity = 10
                /\ results[k].sentiment = NEUTRAL

-----------------------------------------------------------------------------
(* C5 *)

\* the emotions of a record are missing, empty or not a list of strings
NoEmotions(record) ==
    \/ record.t # "obj"
    \/ "emotions" \notin DOMAIN record.f
    \/ ~IsEmotionList(record.f["emotions"])

\* C5: every Result has a non-empty list of strings as emotions, and a Result
\* validated from a record whose emotions are missing, empty or not a list of
\* strings has the emotions ["neutral"].
C5_EmotionsNonEmpty ==
    /\ \A r \in AllResults : IsEmotionList(r.emotions)
    /\ \A c \in Chunks : outcomes[c] = "ok" =>
          \A p \in 1..Produced(c) :
              NoEmotions(arrays[c][p]) => ResultAt(c, p).emotions = DefaultEmotions

-----------------------------------------------------------------------------
(* C6 *)

\* the value the table of defaults gives for each field of a record
TableSentiment(record) ==
    IF record.t = "obj" /\ "sentiment" \in DOMAIN record.f /\ record.f["sentiment"].t = "str"
    THEN clean_sentiment(lower(record.f["sentiment"].s))
    ELSE NEUTRAL

TableConfidence(record) ==
    IF record.t = "obj" /\ "confidence" \in DOMAIN record.f
       /\ ~py_float(record.f["confidence"]).raised
    THEN clamp_confidence(py_float(record.f["confidence"]).val)
    ELSE Fin(50)

TableIntensity(record) ==
    IF record.t = "obj" /\ "intensity" \in DOMAIN record.f
       /\ ~py_int(record.f["intensity"]).raised
    THEN clamp_intensity(py_int(record.f["intensity"]).val)
    ELSE 5

\* C6: validate_result never raises: for a record of any shape it returns a
\* Result in which each of sentiment, confidence and intensity is the
\* normalised value of the record's field when that field is valid and the
\* default (neutral, 0.5, 5) when it is missing or invalid, each field
\* independently of the others.
C6_ValidateNeverFails ==
    (op = "validate" /\ pc # "start") =>
        /\ outcomes = <<"ok">>
        /\ results[1].sentiment = TableSentiment(arrays[1][1])
        /\ results[1].confidence = TableConfidence(arrays[1][1])
        /\ results[1].intensity = TableIntensity(arrays[1][1])
        /\ results[1].original_text = truncate(texts[1])

-----------------------------------------------------------------------------
(* C7 *)

\* every field of a Result has the type the data model declares
WellTyped(r) ==
    /\ InRange(r)
    /\ r.emotions.t = "list" /\ \A k \in 1..Len(r.emotions.items) : r.emotions.items[k].t = "str"
    /\ IsPhraseList(r.key_phrases)

\* no exception of the capability call, of parsing or of coercion reaches
\* the caller of analyze_single_text or analyze_batch
C7_NoEscape == pc # "raised"

\* C7: analyze_single_text and analyze_batch never raise a failure of the
\* capability call, of parsing or of coercion to their caller, and the Results
\* they return are well-typed.
C7_ReturnsWellTyped ==
    /\ pc # "raised"
    /\ pc = "done" => \A k \in 1..Len(results) : WellTyped(results[k])

-----------------------------------------------------------------------------
(* C8 *)

-----------------------------------------------------------------------------
(* C9 and C10 *)

\* the text of the p-th item of chunk c
TextAt(c, p) == ChunkTextsOf(c)[p]

\* where the history of the p-th Result of chunk c is in via
ViaAt(c, p) == via[ResultOffset(c) + p]

\* every text of chunk c has the Result fallback_analysis gives for it
AllFallback(c) ==
    /\ Produced(c) = Len(ChunkTextsOf(c))
    /\ \A p \in 1..Produced(c) : ResultAt(c, p) = fallback_analysis(TextAt(c, p))

\* every text of chunk c analysed so far went through its own single-item
\* call: it has the fallback Result when that call failed and a Result
\* validated for that text otherwise; once the chunk is finished every text
\* has one
Reanalysed(c) ==
    /\ ~InProgress(c) => Produced(c) = Len(ChunkTextsOf(c))
    /\ \A p \in 1..Produced(c) :
          /\ ViaAt(c, p) \in {"single", "fallback"}
          /\ ResultAt(c, p).original_text = truncate(TextAt(c, p))
          /\ ViaAt(c, p) = "fallback" =>
                /\ ResultAt(c, p) = fallback_analysis(TextAt(c, p))
                /\ ResultAt(c, p).confidence \in {Fin(60), Fin(50)}
                /\ ResultAt(c, p).emotions = DefaultEmotions
          /\ ViaAt(c, p) = "single" => InRange(ResultAt(c, p))

\* no capability call of the run succeeded
EveryCallFailed ==
    /\ \A c \in 1..Len(outcomes) : outcomes[c] # "ok"
    /\ \A k \in 1..Len(via) : via[k] = "fallback"

-----------------------------------------------------------------------------
(* C11 *)

\* C11: whatever happened to the other chunks (call error, unparsable
\* response, short array), the Results of chunk k (counted from 0) start at
\* index 5k of the output, and each derives from the text of chunk k at the
\* same position.
C11_ChunkRangeKept ==
    Finished =>
        \A c \in Chunks :
            /\ ResultOffset(c) = batch_size * (c - 1)
            /\ \A p \in 1..ResultCount(c) :
                  results[batch_size * (c - 1) + p].original_text = truncate(TextAt(c, p))

-----------------------------------------------------------------------------
(* C12 *)

\* ceil(n / 5)
ChunkCount(n) == (n + batch_size - 1) \div batch_size

RECURSIVE Sum(_)
Sum(seq) == IF Len(seq) = 0 THEN 0 ELSE Head(seq) + Sum(Tail(seq))

\* the capability calls issued so far, chunk calls and single-item calls
TotalCalls == Sum(calls)

\* the chunk calls made so far carried consecutive slices of the input, in
\* input order, of exactly 5 texts each but for a shorter last one
ChunksOfFive ==
    /\ \A c \in 1..Len(sent) :
          /\ Len(sent[c]) \in 1..batch_size
          /\ c < ChunkCount(Len(texts)) => Len(sent[c]) = batch_size
    /\ Len(Concat(sent)) <= Len(texts)
    /\ Concat(sent) = SubSeq(texts, 1, Len(Concat(sent)))

\* every text went out in exactly one chunk call, ceil(n / 5) chunk calls
AllSent == Len(sent) = ChunkCount(Len(texts)) /\ Concat(sent) = texts

RECURSIVE SingleItemCalls(_)
SingleItemCalls(c) ==
    IF c = 0 THEN 0
    ELSE SingleItemCalls(c - 1) + (IF outcomes[c] = "ok" THEN 0 ELSE Len(sent[c]))

-----------------------------------------------------------------------------
(* C13 *)

FallbackDone == op = "fallback" /\ pc = "done"

\* the Result the claim describes for a positive and a negative count
Classified(r, positive, negative) ==
    /\ r.sentiment = (IF positive > negative THEN POSITIVE
                      ELSE IF negative > positive THEN NEGATIVE ELSE NEUTRAL)
    /\ r.confidence = (IF positive = negative THEN Fin(50) ELSE Fin(60))
    /\ r.emotions = JList(<<JStr(NEUTRAL)>>)
    /\ r.key_phrases = JList(<<>>)
    /\ r.intensity = 5

\* the case-insensitive occurrences in text of the words of the list
Occurrences(words, text) == sum_counts(words, lower(text))

\* word occurs in text, whatever the case of the letters of text
OccursIn(word, text) ==
    \E p \in 0..(Len(text) - Len(word)) :
        \A k \in 1..Len(word) : lower_char(text[p + k]) = word[k]

\* the words of the list that occur in text, each counted once
WordsPresent(words, text) ==
    Cardinality({w \in {words[k] : k \in 1..Len(words)} : OccursIn(w, text)})

\* C13: the Fallback Classifier compares the case-insensitive occurrences of
\* the positive words and of the negative words in the text: positive 0.6
\* when there are more positive ones, negative 0.6 when more negative ones,
\* neutral 0.5 when equal; emotions ["neutral"], no key phrases, intensity 5.
C13_CountsOccurrences ==
    FallbackDone =>
        Classified(results[1], Occurrences(positive_words, texts[1]),
                   Occurrences(negative_words, texts[1]))

\* C13 (amended): the counts compared are the numbers of words of each list
\* that occur in the text at least once, case-insensitively and as
\* substrings, a word that occurs several times counting once.
C13_CountsWordsPresent ==
    FallbackDone =>
        Classified(results[1], WordsPresent(positive_words, texts[1]),
                   WordsPresent(negative_words, texts[1]))

\* "GOOD good bad": one positive word (twice) and one negative word, neutral
C13_Witness ==
    /\ FallbackDone
    /\ texts[1] = TextGoodGoodBad
    /\ results[1].sentiment = NEUTRAL
    /\ results[1].confidence = Fin(50)

-----------------------------------------------------------------------------
(* C14 *)

StatsDone == op = "stats" /\ pc = "done"

\* the three percentages added up, in tenths
PercentageSum ==
    summary_stats.positive_percentage + summary_stats.negative_percentage
        + summary_stats.neutral_percentage

\* pct, in tenths, is count / total * 100 rounded to one decimal
IsRoundedShare(pct, count, total) ==
    /\ 2 * (pct * total - 1000 * count) <= total
    /\ 2 * (1000 * count - pct * total) <= total

-----------------------------------------------------------------------------
(* C15 *)

\* where emotions occur in the Result list: <<Result, place in its list>>
EmotionPlaces ==
    UNION {{<<r, p>> : p \in 1..Len(results[r].emotions.items)} : r \in 1..Len(results)}

PlacesOf(emotion) ==
    {pl \in EmotionPlaces : results[pl[1]].emotions.items[pl[2]] = emotion}

\* place a comes before place b in the Result list
PlaceBefore(a, b) == a[1] < b[1] \/ (a[1] = b[1] /\ a[2] < b[2])

\* emotion a occurs in the Result list before emotion b does
OccursFirst(a, b) ==
    \E pa \in PlacesOf(a) : \A pb \in PlacesOf(b) : PlaceBefore(pa, pb)

EmotionsSeen == {results[pl[1]].emotions.items[pl[2]] : pl \in EmotionPlaces}

Listed == {summary_stats.top_emotions[k][1] : k \in 1..Len(summary_stats.top_emotions)}

\* C15: top_emotions holds at most 5 (emotion, count) pairs, each count the
\* number of occurrences of the emotion over all emotion lists of all
\* Results, in non-increasing order of count, pairs of equal count in order
\* of the emotion's first occurrence in the Result list; an emotion is left
\* out only when 5 are listed, and none left out has a higher count than one
\* listed.
C15_TopEmotions ==
    (StatsDone /\ Len(results) > 0) =>
        LET top == summary_stats.top_emotions
        IN  /\ Len(top) <= 5
            /\ \A k \in 1..Len(top) : top[k][2] = Cardinality(PlacesOf(top[k][1]))
            /\ \A k, l \in 1..Len(top) : k < l =>
                  /\ top[k][2] >= top[l][2]
                  /\ top[k][2] = top[l][2] => OccursFirst(top[k][1], top[l][1])
            /\ \A e \in EmotionsSeen \ Listed :
                  /\ Len(top) = 5
                  /\ \A k \in 1..Len(top) : Cardinality(PlacesOf(e)) <= top[k][2]

\* five emotions listed, the first two with the same count, and one left out
C15_Witness ==
    /\ StatsDone
    /\ Len(results) > 0
    /\ Len(summary_stats.top_emotions) = 5
    /\ summary_stats.top_emotions[1][2] = summary_stats.top_emotions[2][2]
    /\ summary_stats.top_emotions[1][2] > summary_stats.top_emotions[5][2]
    /\ EmotionsSeen \ Listed # {}

-----------------------------------------------------------------------------
(* C16 *)

\* C16: get_summary_stats on an empty list returns a SummaryStats whose total
\* analyzed and positive, negative and neutral counts are all zero.
C16_EmptyGivesZeroCounts ==
    (StatsDone /\ Len(results) = 0) =>
        \A key \in {"total_analyzed", "positive_count", "negative_count", "neutral_count"} :
            key \in DOMAIN summary_stats /\ summary_stats[key] = 0

-----------------------------------------------------------------------------
(* C17 *)

ParseDone == op \in {"parse_object", "parse_array"} /\ pc = "done"

OpeningDelimiter == IF op = "parse_object" THEN "{" ELSE "["

ClosingDelimiter == IF op = "parse_object" THEN "}" ELSE "]"

IsFirstOpening(p) ==
    /\ response_text[p].k = OpeningDelimiter
    /\ \A q \in 1..(p - 1) : response_text[q].k # OpeningDelimiter

IsLastClosing(p) ==
    /\ response_text[p].k = ClosingDelimiter
    /\ \A q \in (p + 1)..Len(response_text) : response_text[q].k # ClosingDelimiter

\* C17: the parser extracts the substring from the first opening delimiter of
\* the response text to the last closing delimiter of the same kind ('{' ..
\* '}' for a single-item call, '[' .. ']' for a chunk call), whatever stands
\* before and after, and parses exactly that substring; it extracts nothing
\* when no closing delimiter follows the first opening one.
C17_FirstToLast ==
    ParseDone =>
        IF \E a, b \in 1..Len(response_text) :
               a < b /\ IsFirstOpening(a) /\ IsLastClosing(b)
        THEN \E a, b \in 1..Len(response_text) :
               /\ IsFirstOpening(a) /\ IsLastClosing(b)
               /\ json_match.found
               /\ json_match.group = SubSeq(response_text, a, b)
               /\ loaded = <<json_loads(SubSeq(response_text, a, b))>>
        ELSE ~json_match.found /\ loaded = <<>>

\* prose before and behind an array: the array alone is extracted and parsed
C17_Witness ==
    /\ ParseDone
    /\ op = "parse_array"
    /\ response_text = <<Prose, LBracket, RBracket, Prose>>
    /\ json_match.group = <<LBracket, RBracket>>
    /\ loaded = <<[raised |-> FALSE, val |-> JList(<<>>)]>>

-----------------------------------------------------------------------------
(* C18 *)

\* the array of chunk c has more entries than the chunk has texts
Surplus(c) == outcomes[c] = "ok" /\ Len(arrays[c]) > Len(sent[c])

\* C18: the output of analyze_batch is never longer than its input: at any
\* time there are at most as many Results as texts sent so far, and when
\* every chunk's array has at least one entry per text, the output has one
\* Result per text, validated from the entry at the same position, the
\* surplus entries being ignored.
C18_NeverLonger ==
    op = "batch" =>
        /\ Len(results) + Len(batch_results) <= Len(Concat(sent))
        /\ Len(results) <= Len(texts)
        /\ (Finished /\ \A c \in Chunks :
                            outcomes[c] = "ok" /\ Len(arrays[c]) >= Len(sent[c])) =>
              /\ Len(results) = Len(texts)
              /\ \A c \in Chunks : \A p \in 1..Len(sent[c]) :
                    results[batch_size * (c - 1) + p] =
                        validate_result(arrays[c][p], sent[c][p]).val

\* six texts in two chunks, both answered with one entry too many: 6 Results
C18_Witness ==
    /\ Finished
    /\ Len(texts) = 6
    /\ Surplus(1) /\ Surplus(2)
    /\ Len(results) = 6

-----------------------------------------------------------------------------
(* C19 *)

\* r is what analyze_single_text returns for text: the record validated from
\* the response of a single-item call, or the fallback Result
FromSingleAnalysis(r, text, how) ==
    IF how = "fallback" THEN r = fallback_analysis(text)
    ELSE \E rsp \in SingleBehaviours :
            single_try(text, rsp) = [outcome |-> "ok", val |-> r]

\* C19: when a chunk call raises, or its response holds no bracketed array,
\* or the array fails to parse, or coercing one of its records raises, no
\* Result comes from the chunk response: every text of the chunk gets one
\* Result, in chunk order, from a single-item analysis of that text, which
\* makes its own capability call and falls back to the Fallback Classifier.
\* (That a Result is one analyze_single_text can return is stated of the
\* newest Result of the newest chunk: every Result is the newest one in the
\* state that follows its analysis.)
C19_FailedChunkReanalysed ==
    \A c \in Chunks : outcomes[c] \in {"raise", "nomatch", "parse", "coerce"} =>
        /\ Reanalysed(c)
        /\ calls[c] = 1 + Produced(c)
        /\ (c = Len(outcomes) /\ Produced(c) > 0) =>
              FromSingleAnalysis(ResultAt(c, Produced(c)), TextAt(c, Produced(c)),
                                 ViaAt(c, Produced(c)))

\* a finished chunk of five texts, one record of whose array could not be
\* coerced: five Results, from single-item calls and from the fallback
C19_Witness ==
    /\ Finished
    /\ Len(texts) = 5
    /\ outcomes = <<"coerce">>
    /\ Len(results) = 5
    /\ \E p, q \in 1..5 : via[p] = "single" /\ via[q] = "fallback"

====
